---- MODULE Spec2Model ----
(***************************************************************************)
(* The loan ledger of src/app.py (a Streamlit application over SQLite).   *)
(*                                                                         *)
(* Every user interaction re-runs the script from the top, so every       *)
(* handler starts with fetch_borrowers() and fetch_loans() (lines 329-330) *)
(* and then runs the page function of the selected page.  One action of   *)
(* this module is one such run, from the fetch to the end of the handler. *)
(*                                                                         *)
(* Money.  The program computes with floats; the model computes with      *)
(* exact decimals on a fixed-point grid: one unit is 1/Cent of a cent.    *)
(* The interest rate is kept in percent (0.20 is 20).  A payment whose    *)
(* re-accrued remainder does not fall on the grid is not taken (Exact).   *)
(*                                                                         *)
(* Dates are day numbers (integers); today is the value of                *)
(* datetime.date.today().                                                  *)
(***************************************************************************)
EXTENDS Integers, FiniteSets, Sequences, TLC

VARIABLES
    today,              \* datetime.date.today()
    db_borrowers,       \* table borrowers: borrower_id -> row
    db_loans,           \* table loans: loan_id -> row
    db_repayments,      \* table repayments: set of rows
    loans,              \* st.session_state.loans when the run has ended
    payments_submitted, \* payment forms submitted so far (a repayment uuid each)
    alerted,            \* the alerts delivered for each loan (history)
    inflight,           \* runs of other sessions under way: the list each fetched
    last                \* what the last run did (history, for the properties)

vars == <<today, db_borrowers, db_loans, db_repayments, loans,
          payments_submitted, alerted, inflight, last>>

----------------------------------------------------------------------------
(* Bounds of the model *)

\* Days the clock may advance.
MaxDay == 1
\* Payment forms submitted.
MaxPayments == 1
\* Cent == 5^Precision grid units: how many re-accruals stay exact.
Precision == 1

(* Program constants *)

\* interest_rate = 0.20, in percent
InterestRatePct == 20
\* datetime.timedelta(days=30)
LoanTermDays == 30
\* (due_date - today).days <= 3
DueSoonDays == 3

Cent == 5 ^ Precision
Dollars(n) == n * 100 * Cent
\* The 0.01 tolerance of the balance checks.
Tolerance == Cent

(* Inputs the forms may supply *)

Names == {"Ann"}
IdNumbers == {"ID1"}
\* The inputs of the register of borrowers
BorrowerNames == {"Ann", "Bob"}
BorrowerIdNumbers == {"ID1", "ID2"}
\* str(uuid.uuid4()) for a loan: an identifier no stored loan has
LoanIds == {1}
TwoLoanIds == {1, 2}
\* st.number_input(min_value=0.01, format="%.2f"): whole cents, at least one
Principals == {Cent, Dollars(100)}
Payments == {Cent, Dollars(50), Dollars(120)}
\* st.date_input: any date.  Day 0 is the day the model starts on: a loan
\* dated -31 is due on day -1 (overdue from the start), one dated -26 on day 4
\* (due in exactly 3 days on day 1).
LoanDates == {-31, -26}
\* An edited due date: day 0 is due today on day 0 and overdue on day 1.
DueDates == {0, 4}
PaymentDates == {-1}
\* Amounts below the minimum of the payment form
RefusedPayments == {0, -Cent}
\* The inputs of the ledger with two loans
TwoPrincipals == {Dollars(100)}
TwoPayments == {Dollars(50), Dollars(120)}
TwoLoanDates == {-31}
LivePayments == {Dollars(50)}
AccrualPayments == {Dollars(10), Dollars(50), Dollars(84), Dollars(150)}

----------------------------------------------------------------------------
(* The accrual engine and the classifier *)

\* x * (1 + rate/100), computed without overflow; exact when Exact(x, rate).
MulRate(x, rate) ==
    (x \div 100) * (100 + rate) + ((x % 100) * (100 + rate)) \div 100

Exact(x, rate) == ((x % 100) * (100 + rate)) % 100 = 0

calculate_initial_due(amount, interest_rate) == MulRate(amount, interest_rate)

calculate_new_due_after_payment_NoInterest(outstanding_balance, interest_rate) ==
    outstanding_balance

calculate_new_due_after_payment(outstanding_balance, interest_rate) ==
    MulRate(outstanding_balance, interest_rate)

get_loan_status_StrictWindow(loan) ==
    IF loan.current_outstanding_balance <= Tolerance THEN "Paid"
    ELSE IF today > loan.due_date THEN "Overdue"
    ELSE IF loan.due_date - today < DueSoonDays
            /\ loan.current_outstanding_balance > 0 THEN "Due Soon"
    ELSE "Active"

get_loan_status_DatesFirst(loan) ==
    IF today > loan.due_date THEN "Overdue"
    ELSE IF loan.current_outstanding_balance <= Tolerance THEN "Paid"
    ELSE IF loan.due_date - today <= DueSoonDays
            /\ loan.current_outstanding_balance > 0 THEN "Due Soon"
    ELSE "Active"

get_loan_status(loan) ==
    IF loan.current_outstanding_balance <= Tolerance THEN "Paid"
    ELSE IF today > loan.due_date THEN "Overdue"
    ELSE IF loan.due_date - today <= DueSoonDays
            /\ loan.current_outstanding_balance > 0 THEN "Due Soon"
    ELSE "Active"

----------------------------------------------------------------------------
(* Rows and runs *)

\* The run that has just ended: the operation, the loan (or borrower) it was
\* about, the amount supplied, whether its first and second store write were
\* committed; for a scan the alerts it sent, the alerts whose send failed and
\* the alerts whose flag write was committed; for a deletion whether the box
\* was ticked; for a borrower form the id number supplied; for a payment
\* whether the store held other payments_made than the list the run had read.
\* cleared holds the flags that were set in the store and that the run has
\* stored as false.
Ran(op, loan, amount, ok, ok2) ==
    [op |-> op, loan |-> loan, amount |-> amount, ok |-> ok, ok2 |-> ok2,
     sent |-> {}, failed |-> {}, flagged |-> {}, cleared |-> {},
     confirmed |-> TRUE, id_number |-> "", stale |-> FALSE]

\* The notification flags of a stored row that are set, by the alert's kind.
FlagsSet(loan) ==
    {kind \in {"overdue", "due soon"} :
        IF kind = "overdue" THEN loan.notification_overdue_sent
        ELSE loan.notification_due_soon_sent}

\* History of a loan's alerts: those delivered since its flags were last
\* reset, and those the last payment found delivered when it reset them.
NoAlerts == [sent |-> {}, paid_over |-> {}]

\* fetch_loans(): the session's list is the table.
fetch_loans == db_loans

\* borrower_options = {b['name']: bid ...}: a later borrower of the same name
\* replaces an earlier one.
borrower_options(name) ==
    LET ids == {b \in DOMAIN db_borrowers : db_borrowers[b].name = name}
    IN  CHOOSE b \in ids : \A c \in ids : c <= b

----------------------------------------------------------------------------
(* What the handlers compute *)

NewLoan_DueAtLoanDate(loan_id, borrower_id, amount, loan_date) ==
    LET interest_rate == InterestRatePct
        initial_total_due == calculate_initial_due(amount, interest_rate)
    IN  [loan_id |-> loan_id, borrower_id |-> borrower_id, amount |-> amount,
         interest_rate |-> interest_rate, loan_date |-> loan_date,
         due_date |-> loan_date, initial_total_due |-> initial_total_due,
         current_outstanding_balance |-> initial_total_due,
         payments_made |-> 0, status |-> "Active",
         notification_due_soon_sent |-> FALSE,
         notification_overdue_sent |-> FALSE]

\* loan_management_main, "Create Loan": the row it builds.
NewLoan(loan_id, borrower_id, amount, loan_date) ==
    LET interest_rate == InterestRatePct
        initial_total_due == calculate_initial_due(amount, interest_rate)
        due_date == loan_date + LoanTermDays
    IN  [loan_id |-> loan_id, borrower_id |-> borrower_id, amount |-> amount,
         interest_rate |-> interest_rate, loan_date |-> loan_date,
         due_date |-> due_date, initial_total_due |-> initial_total_due,
         current_outstanding_balance |-> initial_total_due,
         payments_made |-> 0, status |-> "Active",
         notification_due_soon_sent |-> FALSE,
         notification_overdue_sent |-> FALSE]

EffectivePayment_NoClamp(loan, payment_amount) == payment_amount

\* record_payment: the payment after "Adjusting payment to cover the
\* remaining balance".
EffectivePayment(loan, payment_amount) ==
    LET original_outstanding == loan.current_outstanding_balance
    IN  IF payment_amount > original_outstanding THEN original_outstanding
        ELSE payment_amount

\* The remainder of the balance before re-accrual.
Remainder(loan, payment_amount) ==
    loan.current_outstanding_balance - EffectivePayment(loan, payment_amount)

PaidLoan_StaleStatus(loan, payment_amount) ==
    LET paid == EffectivePayment(loan, payment_amount)
        left == loan.current_outstanding_balance - paid
    IN  [loan EXCEPT
            !.payments_made = @ + paid,
            !.current_outstanding_balance =
                IF left > Tolerance
                THEN calculate_new_due_after_payment(left, loan.interest_rate)
                ELSE 0,
            !.notification_due_soon_sent = FALSE,
            !.notification_overdue_sent = FALSE]

PaidLoan_KeepFlags(loan, payment_amount) ==
    LET paid == EffectivePayment(loan, payment_amount)
        left == loan.current_outstanding_balance - paid
        accrued == [loan EXCEPT
            !.payments_made = @ + paid,
            !.current_outstanding_balance =
                IF left > Tolerance
                THEN calculate_new_due_after_payment(left, loan.interest_rate)
                ELSE 0]
    IN  [accrued EXCEPT !.status = get_loan_status(accrued)]

PaidLoan_AccrueOnce(loan, payment_amount) ==
    LET paid == EffectivePayment(loan, payment_amount)
        left == loan.current_outstanding_balance - paid
        accrued == [loan EXCEPT
            !.payments_made = @ + paid,
            !.current_outstanding_balance =
                IF left > Tolerance
                THEN (IF loan.payments_made = 0
                      THEN calculate_new_due_after_payment(left, loan.interest_rate)
                      ELSE left)
                ELSE 0,
            !.notification_due_soon_sent = FALSE,
            !.notification_overdue_sent = FALSE]
    IN  [accrued EXCEPT !.status = get_loan_status(accrued)]

\* record_payment: the loan of the session's list after the payment.
PaidLoan(loan, payment_amount) ==
    LET paid == EffectivePayment(loan, payment_amount)
        left == loan.current_outstanding_balance - paid
        accrued == [loan EXCEPT
            !.payments_made = @ + paid,
            !.current_outstanding_balance =
                IF left > Tolerance
                THEN calculate_new_due_after_payment(left, loan.interest_rate)
                ELSE 0,
            !.notification_due_soon_sent = FALSE,
            !.notification_overdue_sent = FALSE]
    IN  [accrued EXCEPT !.status = get_loan_status(accrued)]

EditedLoan_NoClamp(current_loan, edited_amount, edited_loan_date, edited_due_date) ==
    LET principal_change == edited_amount - current_loan.amount
        new_balance == current_loan.current_outstanding_balance + principal_change
    IN  [current_loan EXCEPT
            !.amount = edited_amount,
            !.loan_date = edited_loan_date,
            !.due_date = edited_due_date,
            !.initial_total_due =
                calculate_initial_due(edited_amount, current_loan.interest_rate),
            !.current_outstanding_balance = new_balance,
            !.status = get_loan_status(
                [due_date |-> edited_due_date,
                 current_outstanding_balance |-> new_balance]),
            !.notification_due_soon_sent = FALSE,
            !.notification_overdue_sent = FALSE]

EditedLoan_StaleDue(current_loan, edited_amount, edited_loan_date, edited_due_date) ==
    LET principal_change == edited_amount - current_loan.amount
        shifted == current_loan.current_outstanding_balance + principal_change
        new_balance == IF shifted < 0 THEN 0 ELSE shifted
    IN  [current_loan EXCEPT
            !.amount = edited_amount,
            !.loan_date = edited_loan_date,
            !.due_date = edited_due_date,
            !.current_outstanding_balance = new_balance,
            !.status = get_loan_status(
                [due_date |-> edited_due_date,
                 current_outstanding_balance |-> new_balance]),
            !.notification_due_soon_sent = FALSE,
            !.notification_overdue_sent = FALSE]

EditedLoan_KeepFlags(current_loan, edited_amount, edited_loan_date, edited_due_date) ==
    LET new_initial_total_due ==
            calculate_initial_due(edited_amount, current_loan.interest_rate)
        principal_change == edited_amount - current_loan.amount
        shifted == current_loan.current_outstanding_balance + principal_change
        new_current_outstanding_balance == IF shifted < 0 THEN 0 ELSE shifted
    IN  [current_loan EXCEPT
            !.amount = edited_amount,
            !.loan_date = edited_loan_date,
            !.due_date = edited_due_date,
            !.initial_total_due = new_initial_total_due,
            !.current_outstanding_balance = new_current_outstanding_balance,
            !.status = get_loan_status(
                [due_date |-> edited_due_date,
                 current_outstanding_balance |-> new_current_outstanding_balance])]

EditedLoan_KeepOverdueFlag(current_loan, edited_amount, edited_loan_date, edited_due_date) ==
    LET new_initial_total_due ==
            calculate_initial_due(edited_amount, current_loan.interest_rate)
        principal_change == edited_amount - current_loan.amount
        shifted == current_loan.current_outstanding_balance + principal_change
        new_current_outstanding_balance == IF shifted < 0 THEN 0 ELSE shifted
    IN  [current_loan EXCEPT
            !.amount = edited_amount,
            !.loan_date = edited_loan_date,
            !.due_date = edited_due_date,
            !.initial_total_due = new_initial_total_due,
            !.current_outstanding_balance = new_current_outstanding_balance,
            !.status = get_loan_status(
                [due_date |-> edited_due_date,
                 current_outstanding_balance |-> new_current_outstanding_balance]),
            !.notification_due_soon_sent = FALSE]

\* edit_loan_form: the row after updated_data is written.
EditedLoan(current_loan, edited_amount, edited_loan_date, edited_due_date) ==
    LET new_initial_total_due ==
            calculate_initial_due(edited_amount, current_loan.interest_rate)
        principal_change == edited_amount - current_loan.amount
        shifted == current_loan.current_outstanding_balance + principal_change
        new_current_outstanding_balance == IF shifted < 0 THEN 0 ELSE shifted
    IN  [current_loan EXCEPT
            !.amount = edited_amount,
            !.loan_date = edited_loan_date,
            !.due_date = edited_due_date,
            !.initial_total_due = new_initial_total_due,
            !.current_outstanding_balance = new_current_outstanding_balance,
            !.status = get_loan_status(
                [due_date |-> edited_due_date,
                 current_outstanding_balance |-> new_current_outstanding_balance]),
            !.notification_due_soon_sent = FALSE,
            !.notification_overdue_sent = FALSE]

AlertDue_IgnoreFlags(loan) ==
    IF loan.current_outstanding_balance <= Tolerance THEN "none"
    ELSE IF today > loan.due_date THEN "overdue"
    ELSE IF loan.due_date - today <= DueSoonDays THEN "due soon"
    ELSE "none"

AlertDue_WindowFirst(loan) ==
    IF loan.current_outstanding_balance <= Tolerance THEN "none"
    ELSE IF loan.due_date - today <= DueSoonDays
         THEN (IF loan.notification_due_soon_sent THEN "none" ELSE "due soon")
    ELSE IF today > loan.due_date
         THEN (IF loan.notification_overdue_sent THEN "none" ELSE "overdue")
    ELSE "none"

\* notifications: the alert one iteration of the scan tries to send, if any.
AlertDue(loan) ==
    IF loan.current_outstanding_balance <= Tolerance THEN "none"
    ELSE IF today > loan.due_date
         THEN (IF loan.notification_overdue_sent THEN "none" ELSE "overdue")
    ELSE IF loan.due_date - today <= DueSoonDays
         THEN (IF loan.notification_due_soon_sent THEN "none" ELSE "due soon")
    ELSE "none"

ScannedLoan_NoDueSoonFlag(loan, mail_ok, db_ok) ==
    IF loan.current_outstanding_balance > Tolerance
    THEN IF today > loan.due_date
         THEN IF ~loan.notification_overdue_sent /\ mail_ok /\ db_ok
              THEN [loan EXCEPT !.notification_overdue_sent = TRUE]
              ELSE loan
         ELSE IF loan.due_date - today <= DueSoonDays
         THEN loan
         ELSE IF (loan.notification_due_soon_sent \/ loan.notification_overdue_sent)
                 /\ db_ok
              THEN [loan EXCEPT !.notification_due_soon_sent = FALSE,
                                !.notification_overdue_sent = FALSE]
              ELSE loan
    ELSE loan

ScannedLoan_FlagOnFailure(loan, mail_ok, db_ok) ==
    IF loan.current_outstanding_balance > Tolerance
    THEN IF today > loan.due_date
         THEN IF ~loan.notification_overdue_sent /\ db_ok
              THEN [loan EXCEPT !.notification_overdue_sent = TRUE]
              ELSE loan
         ELSE IF loan.due_date - today <= DueSoonDays
         THEN IF ~loan.notification_due_soon_sent /\ db_ok
              THEN [loan EXCEPT !.notification_due_soon_sent = TRUE]
              ELSE loan
         ELSE IF (loan.notification_due_soon_sent \/ loan.notification_overdue_sent)
                 /\ db_ok
              THEN [loan EXCEPT !.notification_due_soon_sent = FALSE,
                                !.notification_overdue_sent = FALSE]
              ELSE loan
    ELSE loan

ScannedLoan_NoOverdueFlag(loan, mail_ok, db_ok) ==
    IF loan.current_outstanding_balance > Tolerance
    THEN IF today > loan.due_date
         THEN loan
         ELSE IF loan.due_date - today <= DueSoonDays
         THEN IF ~loan.notification_due_soon_sent /\ mail_ok /\ db_ok
              THEN [loan EXCEPT !.notification_due_soon_sent = TRUE]
              ELSE loan
         ELSE IF (loan.notification_due_soon_sent \/ loan.notification_overdue_sent)
                 /\ db_ok
              THEN [loan EXCEPT !.notification_due_soon_sent = FALSE,
                                !.notification_overdue_sent = FALSE]
              ELSE loan
    ELSE loan

ScannedLoan_RefreshStatus(loan, mail_ok, db_ok) ==
    LET current == [loan EXCEPT !.status = get_loan_status(loan)]
    IN  IF loan.current_outstanding_balance > Tolerance
        THEN IF today > loan.due_date
             THEN IF ~loan.notification_overdue_sent /\ mail_ok /\ db_ok
                  THEN [current EXCEPT !.notification_overdue_sent = TRUE]
                  ELSE loan
             ELSE IF loan.due_date - today <= DueSoonDays
             THEN IF ~loan.notification_due_soon_sent /\ mail_ok /\ db_ok
                  THEN [current EXCEPT !.notification_due_soon_sent = TRUE]
                  ELSE loan
             ELSE IF (loan.notification_due_soon_sent \/ loan.notification_overdue_sent)
                     /\ db_ok
                  THEN [current EXCEPT !.notification_due_soon_sent = FALSE,
                                       !.notification_overdue_sent = FALSE]
                  ELSE loan
        ELSE loan

ScannedLoan_BothFlags(loan, mail_ok, db_ok) ==
    IF loan.current_outstanding_balance > Tolerance
    THEN IF today > loan.due_date
         THEN IF ~loan.notification_overdue_sent /\ mail_ok /\ db_ok
              THEN [loan EXCEPT !.notification_overdue_sent = TRUE,
                                !.notification_due_soon_sent = TRUE]
              ELSE loan
         ELSE IF loan.due_date - today <= DueSoonDays
         THEN IF ~loan.notification_due_soon_sent /\ mail_ok /\ db_ok
              THEN [loan EXCEPT !.notification_due_soon_sent = TRUE]
              ELSE loan
         ELSE IF (loan.notification_due_soon_sent \/ loan.notification_overdue_sent)
                 /\ db_ok
              THEN [loan EXCEPT !.notification_due_soon_sent = FALSE,
                                !.notification_overdue_sent = FALSE]
              ELSE loan
    ELSE loan

\* notifications: the row after one iteration of the scan; mail_ok is what
\* send_email returns, db_ok whether update_loan_in_db commits.
ScannedLoan(loan, mail_ok, db_ok) ==
    IF loan.current_outstanding_balance > Tolerance
    THEN IF today > loan.due_date
         THEN IF ~loan.notification_overdue_sent /\ mail_ok /\ db_ok
              THEN [loan EXCEPT !.notification_overdue_sent = TRUE]
              ELSE loan
         ELSE IF loan.due_date - today <= DueSoonDays
         THEN IF ~loan.notification_due_soon_sent /\ mail_ok /\ db_ok
              THEN [loan EXCEPT !.notification_due_soon_sent = TRUE]
              ELSE loan
         ELSE IF (loan.notification_due_soon_sent \/ loan.notification_overdue_sent)
                 /\ db_ok
              THEN [loan EXCEPT !.notification_due_soon_sent = FALSE,
                                !.notification_overdue_sent = FALSE]
              ELSE loan
    ELSE loan

----------------------------------------------------------------------------
Init ==
    /\ today = 0
    /\ db_borrowers = <<>>
    /\ db_loans = <<>>
    /\ db_repayments = {}
    /\ loans = <<>>
    /\ payments_submitted = 0
    /\ alerted = <<>>
    /\ inflight = <<>>
    /\ last = Ran("start", 0, 0, TRUE, TRUE)

(* The clock: a day passes. *)
Tick ==
    /\ today < MaxDay
    /\ today' = today + 1
    /\ last' = Ran("tick", 0, 0, TRUE, TRUE)
    /\ UNCHANGED <<db_borrowers, db_loans, db_repayments,
                   loans, payments_submitted, alerted, inflight>>

\* id_number TEXT UNIQUE NOT NULL: another row holds this id number.
IdNumberTaken(id_number, borrower_id) ==
    \E b \in DOMAIN db_borrowers :
       b # borrower_id /\ db_borrowers[b].id_number = id_number

RegisterBorrower_NoUnique(name, id_number, ok) ==
    LET borrower_id == Len(db_borrowers) + 1
    IN  /\ db_borrowers' =
              IF ok
              THEN Append(db_borrowers,
                          [borrower_id |-> borrower_id, name |-> name,
                           id_number |-> id_number,
                           payslip_info |-> "No payslip uploaded"])
              ELSE db_borrowers
        /\ loans' = fetch_loans
        /\ last' = [Ran("registerBorrower", borrower_id, 0, ok, TRUE)
                      EXCEPT !.id_number = id_number]
        /\ UNCHANGED <<today, db_loans, db_repayments,
                       payments_submitted, alerted, inflight>>

(* Register Borrower: add_borrower_to_db; id_number is UNIQUE. *)
RegisterBorrower(name, id_number, ok) ==
    LET borrower_id == Len(db_borrowers) + 1
        inserted == ok /\ ~IdNumberTaken(id_number, borrower_id)
    IN  /\ db_borrowers' =
              IF inserted
              THEN Append(db_borrowers,
                          [borrower_id |-> borrower_id, name |-> name,
                           id_number |-> id_number,
                           payslip_info |-> "No payslip uploaded"])
              ELSE db_borrowers
        /\ loans' = fetch_loans
        /\ last' = [Ran("registerBorrower", borrower_id, 0, inserted, TRUE)
                      EXCEPT !.id_number = id_number]
        /\ UNCHANGED <<today, db_loans, db_repayments,
                       payments_submitted, alerted, inflight>>

EditBorrower_NoUnique(selected_borrower_id, edited_name, edited_id_number, ok) ==
    /\ selected_borrower_id \in DOMAIN db_borrowers
    /\ db_borrowers' =
          IF ok
          THEN [db_borrowers EXCEPT ![selected_borrower_id] =
                   [@ EXCEPT !.name = edited_name,
                             !.id_number = edited_id_number]]
          ELSE db_borrowers
    /\ loans' = fetch_loans
    /\ last' = [Ran("editBorrower", selected_borrower_id, 0, ok, TRUE)
                  EXCEPT !.id_number = edited_id_number]
    /\ UNCHANGED <<today, db_loans, db_repayments,
                   payments_submitted, alerted, inflight>>

(* Edit Borrower: the form's submit branch and update_borrower_in_db.  The  *)
(* name stands for the free-text fields (name, address, cooperate number,   *)
(* phone number), which the UPDATE writes alike.                            *)
EditBorrower(selected_borrower_id, edited_name, edited_id_number, ok) ==
    /\ selected_borrower_id \in DOMAIN db_borrowers
    /\ LET updated == ok /\ ~IdNumberTaken(edited_id_number, selected_borrower_id)
       IN  /\ db_borrowers' =
                 IF updated
                 THEN [db_borrowers EXCEPT ![selected_borrower_id] =
                          [@ EXCEPT !.name = edited_name,
                                    !.id_number = edited_id_number]]
                 ELSE db_borrowers
           /\ loans' = fetch_loans
           /\ last' = [Ran("editBorrower", selected_borrower_id, 0, updated, TRUE)
                         EXCEPT !.id_number = edited_id_number]
    /\ UNCHANGED <<today, db_loans, db_repayments,
                   payments_submitted, alerted, inflight>>

(* Create Loan: the form's submit branch and add_loan_to_db. *)
CreateLoan(loan_id, name, amount, loan_date, ok) ==
    /\ \E b \in DOMAIN db_borrowers : db_borrowers[b].name = name
    /\ amount > 0
    /\ loan_id \notin DOMAIN db_loans
    /\ LET new_loan == NewLoan(loan_id, borrower_options(name), amount, loan_date)
       IN  /\ db_loans' =
                 IF ok
                 THEN [l \in DOMAIN db_loans \cup {loan_id} |->
                          IF l = loan_id THEN new_loan ELSE db_loans[l]]
                 ELSE db_loans
           /\ loans' = db_loans'
           /\ alerted' = [l \in DOMAIN db_loans' |->
                            IF l \in DOMAIN db_loans THEN alerted[l] ELSE NoAlerts]
           /\ last' = Ran("createLoan", loan_id, amount, ok, TRUE)
    /\ UNCHANGED <<today, db_borrowers, db_repayments,
                   payments_submitted, inflight>>

StoredPayment_NewPeriod(row, loan) ==
    [row EXCEPT
        !.payments_made = loan.payments_made,
        !.current_outstanding_balance = loan.current_outstanding_balance,
        !.due_date = IF loan.current_outstanding_balance > Tolerance
                     THEN today + LoanTermDays ELSE @,
        !.status = loan.status,
        !.notification_due_soon_sent = loan.notification_due_soon_sent,
        !.notification_overdue_sent = loan.notification_overdue_sent]

StoredPayment_RebasedDue(row, loan) ==
    [row EXCEPT
        !.payments_made = loan.payments_made,
        !.current_outstanding_balance = loan.current_outstanding_balance,
        !.initial_total_due = loan.current_outstanding_balance,
        !.status = loan.status,
        !.notification_due_soon_sent = loan.notification_due_soon_sent,
        !.notification_overdue_sent = loan.notification_overdue_sent]

\* record_payment's update_loan_in_db: the stored row with the five columns of
\* the UPDATE set from the session's loan.
StoredPayment(row, loan) ==
    [row EXCEPT
        !.payments_made = loan.payments_made,
        !.current_outstanding_balance = loan.current_outstanding_balance,
        !.status = loan.status,
        !.notification_due_soon_sent = loan.notification_due_soon_sent,
        !.notification_overdue_sent = loan.notification_overdue_sent]

AmountAccepted_NoMinimum(payment_amount) == TRUE

\* st.number_input("Payment Amount ($)", min_value=0.01): the form yields no
\* amount below one cent.
AmountAccepted(payment_amount) == payment_amount >= Cent

SubmitPayment_ReadsStore(read, selected_loan_id, payment_amount, payment_date, update_ok, insert_ok) ==
    /\ selected_loan_id \in DOMAIN read
    /\ selected_loan_id \in DOMAIN db_loans
    /\ read[selected_loan_id].current_outstanding_balance > Tolerance
    /\ db_loans[selected_loan_id].current_outstanding_balance > Tolerance
    /\ AmountAccepted(payment_amount)
    /\ LET before == db_loans[selected_loan_id]
           left == Remainder(before, payment_amount)
           loan == PaidLoan(before, payment_amount)
           repayment_id == payments_submitted + 1
       IN  /\ left > Tolerance => Exact(left, before.interest_rate)
           /\ db_loans' =
                 IF update_ok
                 THEN [db_loans EXCEPT ![selected_loan_id] = loan]
                 ELSE db_loans
           /\ loans' =
                 IF update_ok THEN db_loans'
                 ELSE [read EXCEPT ![selected_loan_id] = loan]
           /\ db_repayments' =
                 IF insert_ok
                 THEN db_repayments \cup
                        {[repayment_id |-> repayment_id,
                          loan_id |-> selected_loan_id,
                          amount_paid |-> EffectivePayment(before, payment_amount),
                          repayment_date |-> payment_date]}
                 ELSE db_repayments
           /\ payments_submitted' = repayment_id
           /\ alerted' =
                 IF update_ok
                 THEN [alerted EXCEPT ![selected_loan_id] =
                          [sent |-> {}, paid_over |-> @.sent]]
                 ELSE alerted
           /\ last' = Ran("recordPayment", selected_loan_id, payment_amount,
                          update_ok, insert_ok)
    /\ UNCHANGED <<today, db_borrowers>>

(* Record Payment: the form's submit branch, update_loan_in_db and           *)
(* add_repayment_to_db, on the list `read` that the run fetched at its      *)
(* start.  update_ok and insert_ok say whether each write commits; the two  *)
(* are separate connections and separate commits.  The UPDATE of a loan_id  *)
(* that the table no longer holds changes no row and raises nothing.  The   *)
(* insert also fails when the database file has no table repayments:       *)
(* init_db creates the tables borrowers and loans only.                     *)
SubmitPayment(read, selected_loan_id, payment_amount, payment_date, update_ok, insert_ok) ==
    /\ selected_loan_id \in DOMAIN read
    /\ read[selected_loan_id].current_outstanding_balance > Tolerance
    /\ AmountAccepted(payment_amount)
    /\ LET before == read[selected_loan_id]
           left == Remainder(before, payment_amount)
           loan == PaidLoan(before, payment_amount)
           repayment_id == payments_submitted + 1
           stored == update_ok /\ selected_loan_id \in DOMAIN db_loans
       IN  /\ left > Tolerance => Exact(left, before.interest_rate)
           /\ db_loans' =
                 IF stored
                 THEN [db_loans EXCEPT ![selected_loan_id] = StoredPayment(@, loan)]
                 ELSE db_loans
           /\ loans' =
                 IF update_ok THEN db_loans'
                 ELSE [read EXCEPT ![selected_loan_id] = loan]
           /\ db_repayments' =
                 IF insert_ok
                 THEN db_repayments \cup
                        {[repayment_id |-> repayment_id,
                          loan_id |-> selected_loan_id,
                          amount_paid |-> EffectivePayment(before, payment_amount),
                          repayment_date |-> payment_date]}
                 ELSE db_repayments
           /\ payments_submitted' = repayment_id
           /\ alerted' =
                 IF stored
                 THEN [alerted EXCEPT ![selected_loan_id] =
                          [sent |-> {}, paid_over |-> @.sent]]
                 ELSE alerted
           /\ last' = [Ran("recordPayment", selected_loan_id, payment_amount,
                           update_ok, insert_ok)
                         EXCEPT !.stale =
                            /\ selected_loan_id \in DOMAIN db_loans
                            /\ db_loans[selected_loan_id].payments_made
                                  # before.payments_made,
                                !.cleared =
                            IF stored
                            THEN {<<selected_loan_id, kind>> :
                                    kind \in FlagsSet(db_loans[selected_loan_id])}
                            ELSE {}]
    /\ UNCHANGED <<today, db_borrowers>>

(* Record Payment in one session: the run fetches the list and submits. *)
RecordPayment(selected_loan_id, payment_amount, payment_date, update_ok, insert_ok) ==
    /\ SubmitPayment(fetch_loans, selected_loan_id, payment_amount, payment_date,
                     update_ok, insert_ok)
    /\ UNCHANGED inflight

(* Edit Loan: the form's submit branch and update_loan_in_db. *)
EditLoan(selected_loan_id, edited_amount, edited_loan_date, edited_due_date, ok) ==
    /\ selected_loan_id \in DOMAIN db_loans
    /\ LET current_loan == fetch_loans[selected_loan_id]
           updated == EditedLoan(current_loan, edited_amount, edited_loan_date,
                                 edited_due_date)
       IN  /\ db_loans' = IF ok THEN [db_loans EXCEPT ![selected_loan_id] = updated]
                          ELSE db_loans
           /\ loans' = db_loans'
           /\ alerted' = IF ok THEN [alerted EXCEPT ![selected_loan_id] = NoAlerts]
                         ELSE alerted
           /\ last' = [Ran("editLoan", selected_loan_id, edited_amount, ok, TRUE)
                         EXCEPT !.cleared =
                            IF ok
                            THEN {<<selected_loan_id, kind>> :
                                    kind \in FlagsSet(current_loan)}
                            ELSE {}]
    /\ UNCHANGED <<today, db_borrowers, db_repayments,
                   payments_submitted, inflight>>

(* Delete Loan: both DELETEs run on one connection and commit once; an     *)
(* exception (the table repayments does not exist, the store fails) leaves  *)
(* the connection to close uncommitted.                                      *)
DeleteLoan(selected_loan_id, confirm_delete, ok) ==
    /\ selected_loan_id \in DOMAIN db_loans
    /\ LET deleted == confirm_delete /\ ok
       IN  /\ db_repayments' =
                 IF deleted
                 THEN {r \in db_repayments : r.loan_id # selected_loan_id}
                 ELSE db_repayments
           /\ db_loans' =
                 IF deleted
                 THEN [l \in DOMAIN db_loans \ {selected_loan_id} |-> db_loans[l]]
                 ELSE db_loans
           /\ loans' = db_loans'
           /\ alerted' = [l \in DOMAIN db_loans' |-> alerted[l]]
           /\ last' = [Ran("deleteLoan", selected_loan_id, 0, deleted, TRUE)
                         EXCEPT !.confirmed = confirm_delete]
    /\ UNCHANGED <<today, db_borrowers, payments_submitted, inflight>>

\* notifications: the iteration takes the last branch (the loan is unpaid and
\* due more than 3 days ahead).
FoundActive(loan) ==
    /\ loan.current_outstanding_balance > Tolerance
    /\ ~(today > loan.due_date)
    /\ ~(loan.due_date - today <= DueSoonDays)

(* Notifications: one scan over the loans fetched at its start.  mail_ok[l] *)
(* is what send_email returns for loan l, db_ok[l] whether its flag write   *)
(* commits.                                                                  *)
Notifications(mail_ok, db_ok) ==
    LET due == {l \in DOMAIN db_loans : AlertDue(fetch_loans[l]) # "none"}
        alert(l) == <<l, AlertDue(fetch_loans[l])>>
    IN  /\ DOMAIN db_loans # {}
        /\ db_loans' = [l \in DOMAIN db_loans |->
                           ScannedLoan(fetch_loans[l], mail_ok[l], db_ok[l])]
        /\ loans' = db_loans'
        /\ alerted' = [l \in DOMAIN db_loans |->
              IF FoundActive(fetch_loans[l])
              THEN IF db_loans'[l].notification_due_soon_sent
                      \/ db_loans'[l].notification_overdue_sent
                   THEN alerted[l] ELSE NoAlerts
              ELSE IF l \in due /\ mail_ok[l]
              THEN [alerted[l] EXCEPT !.sent = @ \cup {AlertDue(fetch_loans[l])}]
              ELSE alerted[l]]
        /\ last' = [Ran("notifications", 0, 0, TRUE, TRUE) EXCEPT
                      !.sent = {alert(l) : l \in {k \in due : mail_ok[k]}},
                      !.failed = {alert(l) : l \in {k \in due : ~mail_ok[k]}},
                      !.flagged = {alert(l) : l \in {k \in due : mail_ok[k] /\ db_ok[k]}},
                      !.cleared = UNION {{<<l, kind>> : kind \in FlagsSet(fetch_loans[l])} :
                                        l \in {k \in DOMAIN db_loans :
                                                 FoundActive(fetch_loans[k]) /\ db_ok[k]}}]
        /\ UNCHANGED <<today, db_borrowers, db_repayments,
                       payments_submitted, inflight>>

\* uuid.uuid4(): an identifier not in use (the least, ids being alike).
Fresh(ids) == CHOOSE l \in ids \ DOMAIN db_loans :
                 \A k \in ids \ DOMAIN db_loans : l <= k

\* The runs of the application, with the forms' inputs drawn from the sets given.
NextOn(names, id_numbers, ids, principals, payments, loan_dates, due_dates, max_payments) ==
    \/ Tick
    \/ \E name \in names, id_number \in id_numbers, ok \in BOOLEAN :
          /\ IdNumberTaken(id_number, 0) => ok
          /\ RegisterBorrower(name, id_number, ok)
    \/ \E b \in DOMAIN db_borrowers, name \in names, id_number \in id_numbers,
          ok \in BOOLEAN :
          /\ IdNumberTaken(id_number, b) => ok
          /\ EditBorrower(b, name, id_number, ok)
    \/ \E name \in names, amount \in principals, loan_date \in loan_dates,
          ok \in BOOLEAN :
          /\ ids \ DOMAIN db_loans # {}
          /\ CreateLoan(Fresh(ids), name, amount, loan_date, ok)
    \/ \E l \in DOMAIN db_loans, p \in payments \cup RefusedPayments,
          payment_date \in PaymentDates,
          update_ok \in BOOLEAN, insert_ok \in BOOLEAN :
          /\ payments_submitted < max_payments
          /\ RecordPayment(l, p, payment_date, update_ok, insert_ok)
    \/ \E l \in DOMAIN db_loans, amount \in principals, ok \in BOOLEAN :
          \E d \in {db_loans[l].due_date} \cup due_dates :
             EditLoan(l, amount, db_loans[l].loan_date, d, ok)
    \/ \E l \in DOMAIN db_loans, confirm_delete \in BOOLEAN, ok \in BOOLEAN :
          /\ ~confirm_delete => ok
          /\ DeleteLoan(l, confirm_delete, ok)
    \/ \E mail_ok \in [DOMAIN db_loans -> BOOLEAN],
          db_ok \in [DOMAIN db_loans -> BOOLEAN] :
          /\ \A l \in DOMAIN db_loans :
                /\ AlertDue(db_loans[l]) = "none" => mail_ok[l]
                /\ ScannedLoan(db_loans[l], TRUE, TRUE) = db_loans[l] => db_ok[l]
          /\ Notifications(mail_ok, db_ok)

\* One loan at a time, the full inputs.
Next ==
    NextOn(Names, IdNumbers, LoanIds, Principals, Payments, LoanDates, DueDates,
           MaxPayments)

Spec == Init /\ [][Next]_vars

\* Two loans side by side, fewer inputs: an edit keeps the due date.
NextTwo ==
    NextOn(Names, IdNumbers, TwoLoanIds, TwoPrincipals, TwoPayments, TwoLoanDates,
           {}, MaxPayments)

SpecTwo == Init /\ [][NextTwo]_vars

\* A scan in which every send_email returns True and every flag write commits.
ScanSucceeds ==
    Notifications([l \in DOMAIN db_loans |-> TRUE], [l \in DOMAIN db_loans |-> TRUE])

\* One loan of 100 and one payment more than MaxPayments, so that a payment
\* follows a re-accrual.
NextAccrual ==
    NextOn(Names, IdNumbers, LoanIds, TwoPrincipals, AccrualPayments, TwoLoanDates,
           {}, MaxPayments + 1)

SpecAccrual == Init /\ [][NextAccrual]_vars

\* Two loans, one size of payment.
NextLive ==
    NextOn(Names, IdNumbers, TwoLoanIds, TwoPrincipals, LivePayments, TwoLoanDates,
           {}, MaxPayments)

\* The runs where the Notifications page keeps being opened and the mail
\* server and the store do not fail for ever: a scan that succeeds is not put
\* off for ever while it has something to write.
SpecLive == Init /\ [][NextLive]_vars /\ WF_vars(ScanSucceeds)

\* Two borrowers and their identity fields, one loan.
NextBorrowers ==
    NextOn(BorrowerNames, BorrowerIdNumbers, LoanIds, TwoPrincipals, TwoPayments,
           TwoLoanDates, {}, MaxPayments)

SpecBorrowers == Init /\ [][NextBorrowers]_vars

----------------------------------------------------------------------------
(* Overlapping sessions and a crash.  Streamlit runs the script of each      *)
(* browser session in a thread of its own, so a run of one session can fall *)
(* between the fetch of another session's run (lines 329-330) and that      *)
(* run's writes; and the process can be killed between two statements.      *)

Sessions == {"A", "B"}

\* A run of session s of the page Record Payment starts: fetch_loans().
BeginRun(s) ==
    /\ s \notin DOMAIN inflight
    /\ inflight' = [t \in DOMAIN inflight \cup {s} |->
                      IF t = s THEN fetch_loans ELSE inflight[t]]
    /\ last' = Ran("fetch", 0, 0, TRUE, TRUE)
    /\ UNCHANGED <<today, db_borrowers, db_loans, db_repayments, loans,
                   payments_submitted, alerted>>

\* The run of session s goes on to the submit branch, on the list it fetched.
FinishPayment(s, selected_loan_id, payment_amount, payment_date, update_ok, insert_ok) ==
    /\ s \in DOMAIN inflight
    /\ SubmitPayment(inflight[s], selected_loan_id, payment_amount, payment_date,
                     update_ok, insert_ok)
    /\ inflight' = [t \in DOMAIN inflight \ {s} |-> inflight[t]]

CrashedScan_FlagBeforeSend(mail_ok, db_ok, crash_loan) ==
    LET before == {l \in DOMAIN db_loans : l < crash_loan}
        due == {l \in before : AlertDue(fetch_loans[l]) # "none"}
        alert(l) == <<l, AlertDue(fetch_loans[l])>>
    IN  /\ crash_loan \in DOMAIN db_loans
        /\ AlertDue(fetch_loans[crash_loan]) # "none"
        /\ db_loans' = [l \in DOMAIN db_loans |->
              IF l \in before
              THEN ScannedLoan(fetch_loans[l], mail_ok[l], db_ok[l])
              ELSE IF l = crash_loan
              THEN ScannedLoan(fetch_loans[l], TRUE, TRUE)
              ELSE db_loans[l]]
        /\ loans' = db_loans'
        /\ alerted' = [l \in DOMAIN db_loans |->
              IF (l \in due /\ mail_ok[l]) \/ l = crash_loan
              THEN [alerted[l] EXCEPT !.sent = @ \cup {AlertDue(fetch_loans[l])}]
              ELSE alerted[l]]
        /\ last' = [Ran("crashedScan", crash_loan, 0, TRUE, FALSE) EXCEPT
                      !.sent = {alert(l) : l \in {k \in due : mail_ok[k]}}
                                  \cup {alert(crash_loan)},
                      !.failed = {alert(l) : l \in {k \in due : ~mail_ok[k]}},
                      !.flagged = {alert(l) : l \in {k \in due : mail_ok[k] /\ db_ok[k]}}]
        /\ UNCHANGED <<today, db_borrowers, db_repayments,
                       payments_submitted, inflight>>

\* Notifications, the process killed in the iteration of crash_loan after
\* send_email has returned True and before update_loan_in_db is called: the
\* loans before it are scanned, the loans after it are not.
CrashedScan(mail_ok, db_ok, crash_loan) ==
    LET before == {l \in DOMAIN db_loans : l < crash_loan}
        due == {l \in before : AlertDue(fetch_loans[l]) # "none"}
        alert(l) == <<l, AlertDue(fetch_loans[l])>>
    IN  /\ crash_loan \in DOMAIN db_loans
        /\ AlertDue(fetch_loans[crash_loan]) # "none"
        /\ db_loans' = [l \in DOMAIN db_loans |->
              IF l \in before
              THEN ScannedLoan(fetch_loans[l], mail_ok[l], db_ok[l])
              ELSE db_loans[l]]
        /\ loans' = db_loans'
        /\ alerted' = [l \in DOMAIN db_loans |->
              IF (l \in due /\ mail_ok[l]) \/ l = crash_loan
              THEN [alerted[l] EXCEPT !.sent = @ \cup {AlertDue(fetch_loans[l])}]
              ELSE alerted[l]]
        /\ last' = [Ran("crashedScan", crash_loan, 0, TRUE, FALSE) EXCEPT
                      !.sent = {alert(l) : l \in {k \in due : mail_ok[k]}}
                                  \cup {alert(crash_loan)},
                      !.failed = {alert(l) : l \in {k \in due : ~mail_ok[k]}},
                      !.flagged = {alert(l) : l \in {k \in due : mail_ok[k] /\ db_ok[k]}}]
        /\ UNCHANGED <<today, db_borrowers, db_repayments,
                       payments_submitted, inflight>>

\* Two sessions on one loan: one more payment than MaxPayments, so that two
\* payments can overlap.  A uuid is new: a loan is created under an id that no
\* session's list and no stored row refers to.
NextOverlap ==
    \/ \E name \in Names, id_number \in IdNumbers :
          RegisterBorrower(name, id_number, TRUE)
    \/ \E name \in Names, amount \in TwoPrincipals, loan_date \in TwoLoanDates :
          /\ LoanIds \ DOMAIN db_loans # {}
          /\ \A s \in DOMAIN inflight : Fresh(LoanIds) \notin DOMAIN inflight[s]
          /\ \A r \in db_repayments : r.loan_id # Fresh(LoanIds)
          /\ CreateLoan(Fresh(LoanIds), name, amount, loan_date, TRUE)
    \/ \E s \in Sessions : BeginRun(s)
    \/ \E s \in DOMAIN inflight : \E l \in DOMAIN inflight[s] :
          \E p \in TwoPayments, payment_date \in PaymentDates,
             update_ok \in BOOLEAN, insert_ok \in BOOLEAN :
             /\ payments_submitted < MaxPayments + 1
             /\ FinishPayment(s, l, p, payment_date, update_ok, insert_ok)
    \/ \E l \in DOMAIN db_loans : DeleteLoan(l, TRUE, TRUE)
    \/ \E mail_ok \in [DOMAIN db_loans -> BOOLEAN],
          db_ok \in [DOMAIN db_loans -> BOOLEAN] :
          /\ \A l \in DOMAIN db_loans :
                /\ AlertDue(db_loans[l]) = "none" => mail_ok[l]
                /\ ScannedLoan(db_loans[l], TRUE, TRUE) = db_loans[l] => db_ok[l]
          /\ Notifications(mail_ok, db_ok)
    \/ \E l \in DOMAIN db_loans :
          CrashedScan([k \in DOMAIN db_loans |-> TRUE],
                      [k \in DOMAIN db_loans |-> TRUE], l)

SpecOverlap == Init /\ [][NextOverlap]_vars

----------------------------------------------------------------------------
(* Properties *)

Balance(l) == db_loans[l].current_outstanding_balance

\* This step is a run of recordPayment on loan l.
PaymentStep(l) == last'.op = "recordPayment" /\ last'.loan = l

\* The repayment rows this step has inserted.
Inserted == db_repayments' \ db_repayments

\* C1: recordPayment commits the loan update and the Repayment row together
\* or not at all: after a recordPayment run the store holds the loan's
\* updated row if and only if it holds the run's Repayment row.
C1_PaymentCommitsTogether ==
    [][\A l \in DOMAIN db_loans :
          PaymentStep(l) => ((db_loans'[l] # db_loans[l]) <=> (Inserted # {}))]_vars

\* C2: a payment p >= B on a loan with balance B > 0.01 applies exactly B:
\* the loan ends with balance 0, status Paid and payments_made grown by B, in
\* the session's list and, when the update commits, in the store; a Repayment
\* row that is inserted carries B.
C2_OverpaymentClamped ==
    [][\A l \in DOMAIN db_loans :
          (PaymentStep(l) /\ Balance(l) > Tolerance /\ last'.amount >= Balance(l)) =>
             /\ loans'[l].current_outstanding_balance = 0
             /\ loans'[l].status = "Paid"
             /\ loans'[l].payments_made = db_loans[l].payments_made + Balance(l)
             /\ db_loans'[l] \in {db_loans[l], loans'[l]}
             /\ last'.ok => db_loans'[l] = loans'[l]
             /\ \A r \in Inserted : r.loan_id = l /\ r.amount_paid = Balance(l)
             /\ last'.ok2 => Inserted # {}]_vars

\* C2 witness: an overpayment has been committed: the Repayment row carries
\* less than the amount supplied and the loan is Paid with balance 0.
C2_Witness ==
    /\ last.op = "recordPayment" /\ last.ok /\ last.ok2
    /\ db_loans[last.loan].current_outstanding_balance = 0
    /\ db_loans[last.loan].status = "Paid"
    /\ \E r \in db_repayments :
          r.loan_id = last.loan /\ r.amount_paid < last.amount

\* C3: a payment p on a loan with balance B and B - p > 0.01 leaves the
\* balance (B - p) * (1 + interest_rate), payments_made grown by p and both
\* notification flags false, in the session's list and, when the update
\* commits, in the store.
C3_PartialPaymentReaccrues ==
    [][\A l \in DOMAIN db_loans :
          (PaymentStep(l) /\ Balance(l) - last'.amount > Tolerance) =>
             /\ 100 * loans'[l].current_outstanding_balance =
                   (Balance(l) - last'.amount) * (100 + db_loans[l].interest_rate)
             /\ loans'[l].payments_made = db_loans[l].payments_made + last'.amount
             /\ ~loans'[l].notification_due_soon_sent
             /\ ~loans'[l].notification_overdue_sent
             /\ db_loans'[l] \in {db_loans[l], loans'[l]}
             /\ last'.ok => db_loans'[l] = loans'[l]]_vars

\* C3 witness: the spec's scenario: 50 paid on 120 at rate 0.20 is stored as
\* balance 84 and payments_made 50.
C3_Witness ==
    /\ last.op = "recordPayment" /\ last.ok /\ last.amount = Dollars(50)
    /\ db_loans[last.loan].current_outstanding_balance = Dollars(84)
    /\ db_loans[last.loan].payments_made = Dollars(50)
    /\ db_loans[last.loan].interest_rate = 20

\* C4: the classifier follows the ordered rules: Paid if balance <= 0.01; else
\* Overdue if today > due date; else Due Soon if the due date is 0 to 3 days
\* ahead; else Active (4 or more days ahead).
C4_ClassifierRules ==
    \A l \in DOMAIN db_loans :
       LET s == get_loan_status(db_loans[l])
           b == db_loans[l].current_outstanding_balance
           d == db_loans[l].due_date - today
       IN  /\ s \in {"Paid", "Overdue", "Due Soon", "Active"}
           /\ (s = "Paid") <=> (b <= Tolerance)
           /\ (s = "Overdue") <=> (b > Tolerance /\ d < 0)
           /\ (s = "Due Soon") <=> (b > Tolerance /\ d >= 0 /\ d <= 3)
           /\ (s = "Active") <=> (b > Tolerance /\ d >= 4)

\* C4 witness: an unpaid loan due in exactly 3 days is classified Due Soon.
C4_Witness ==
    \E l \in DOMAIN db_loans :
       /\ db_loans[l].due_date - today = 3
       /\ db_loans[l].current_outstanding_balance > Tolerance
       /\ get_loan_status(db_loans[l]) = "Due Soon"

\* C5: every loan with balance <= 0.01 has status Paid, stored and as the
\* classifier reports it, whatever its due date.
C5_PaidWhateverTheDate ==
    /\ \A l \in DOMAIN db_loans :
          db_loans[l].current_outstanding_balance <= Tolerance =>
             /\ db_loans[l].status = "Paid"
             /\ get_loan_status(db_loans[l]) = "Paid"
    /\ \A l \in DOMAIN loans :
          loans[l].current_outstanding_balance <= Tolerance =>
             /\ loans[l].status = "Paid"
             /\ get_loan_status(loans[l]) = "Paid"

\* C5 witness: a loan paid off whose due date is in the past.
C5_Witness ==
    \E l \in DOMAIN db_loans :
       /\ db_loans[l].current_outstanding_balance <= Tolerance
       /\ db_loans[l].payments_made > 0
       /\ today > db_loans[l].due_date
       /\ db_loans[l].status = "Paid"

\* The stored status of every loan is what the classifier says today.
StoredStatusCurrent ==
    \A l \in DOMAIN db_loans : db_loans[l].status = get_loan_status(db_loans[l])

\* C6 as claimed: the stored status of every loan equals the classifier's
\* result in every state, also in a state reached by the date advancing: a day
\* passing over a store whose statuses are current leaves them current.
C6_StoredStatusFollowsTheDate ==
    [][(last'.op = "tick" /\ StoredStatusCurrent) => StoredStatusCurrent']_vars

\* C6 as amended: the stored status is written only by a committed
\* recordPayment or editLoan, to the classifier's result for the row on that
\* day; createLoan stores Active; no other step, the date advancing among
\* them, changes it.
C6_StoredStatusAsLastWritten ==
    [][\A l \in DOMAIN db_loans' :
          IF l \notin DOMAIN db_loans
          THEN db_loans'[l].status = "Active"
          ELSE IF last'.op \in {"recordPayment", "editLoan"} /\ last'.loan = l
                  /\ last'.ok
          THEN db_loans'[l].status = (get_loan_status(db_loans[l]))'
          ELSE db_loans'[l].status = db_loans[l].status]_vars

\* C6 witness: a day has passed and a loan stored as Active, now due in
\* exactly 3 days, is Due Soon for the classifier.
C6_Witness ==
    /\ last.op = "tick"
    /\ \E l \in DOMAIN db_loans :
          /\ db_loans[l].status = "Active"
          /\ db_loans[l].due_date - today = 3
          /\ get_loan_status(db_loans[l]) = "Due Soon"

\* C7: right after a createLoan, recordPayment or editLoan whose loan write
\* committed, the stored status of that loan is the classifier's result for it
\* on that day.
C7_StatusClassifiedWhenWritten ==
    (last.op \in {"createLoan", "recordPayment", "editLoan"} /\ last.ok) =>
       db_loans[last.loan].status = get_loan_status(db_loans[last.loan])

\* C8: the outstanding balance of every loan is never negative.
C8_BalanceNeverNegative ==
    /\ \A l \in DOMAIN db_loans : db_loans[l].current_outstanding_balance >= 0
    /\ \A l \in DOMAIN loans : loans[l].current_outstanding_balance >= 0

\* C8 witness: after 50 was paid on 120 (balance 84) the principal was edited
\* from 100 down to 0.01, a decrease larger than the balance: the balance is 0.
C8_Witness ==
    /\ last.op = "editLoan" /\ last.ok
    /\ db_loans[last.loan].amount = Cent
    /\ db_loans[last.loan].payments_made = Dollars(50)
    /\ db_loans[last.loan].current_outstanding_balance = 0

\* C9: every loan has initial_total_due = amount * (1 + interest_rate) after
\* every step, and recordPayment and the notification scan change none of
\* amount, interest_rate and initial_total_due.
C9_InitialDueOfPrincipal ==
    [][\A l \in DOMAIN db_loans' :
          /\ 100 * db_loans'[l].initial_total_due =
                db_loans'[l].amount * (100 + db_loans'[l].interest_rate)
          /\ (last'.op \in {"recordPayment", "notifications"}
              /\ l \in DOMAIN db_loans) =>
                /\ db_loans'[l].amount = db_loans[l].amount
                /\ db_loans'[l].interest_rate = db_loans[l].interest_rate
                /\ db_loans'[l].initial_total_due = db_loans[l].initial_total_due]_vars

\* C9 witness: an edit has lowered the principal of an unpaid loan from 100 to
\* 0.01 (the balance still holds the old interest, so it is not the new
\* initial_total_due).
C9_Witness ==
    /\ last.op = "editLoan" /\ last.ok
    /\ db_loans[last.loan].amount = Cent
    /\ db_loans[last.loan].payments_made = 0
    /\ db_loans[last.loan].current_outstanding_balance
          # db_loans[last.loan].initial_total_due

\* C10: a createLoan that commits stores, under a new id, a loan of an
\* existing borrower with interest_rate 0.20, due_date = loan_date + 30,
\* initial_total_due = principal * 1.20, balance = initial_total_due,
\* payments_made = 0 and both flags false, and changes no other loan.
C10_CreateLoanStores ==
    [][(last'.op = "createLoan" /\ last'.ok) =>
          LET id == last'.loan
              row == db_loans'[id]
          IN  /\ id \notin DOMAIN db_loans
              /\ DOMAIN db_loans' = DOMAIN db_loans \cup {id}
              /\ row.loan_id = id
              /\ row.borrower_id \in DOMAIN db_borrowers
              /\ row.amount = last'.amount
              /\ row.interest_rate = 20
              /\ row.due_date = row.loan_date + 30
              /\ 100 * row.initial_total_due = 120 * row.amount
              /\ row.current_outstanding_balance = row.initial_total_due
              /\ row.payments_made = 0
              /\ ~row.notification_due_soon_sent
              /\ ~row.notification_overdue_sent
              /\ \A l \in DOMAIN db_loans : db_loans'[l] = db_loans[l]]_vars

\* C10 witness: a loan has been created beside another loan that has already
\* received a payment.
C10_Witness ==
    /\ last.op = "createLoan" /\ last.ok
    /\ last.loan \in DOMAIN db_loans
    /\ \E l \in DOMAIN db_loans : l # last.loan /\ db_loans[l].payments_made > 0

----------------------------------------------------------------------------
(* Properties of the notification scan *)

\* The notification flag of an alert.
Flag(loan, kind) ==
    IF kind = "overdue" THEN loan.notification_overdue_sent
    ELSE loan.notification_due_soon_sent

\* This step is a notification scan.
ScanStep == last'.op = "notifications"

\* The alerts this scan has tried to send.
Tried == last'.sent \cup last'.failed

\* The alerts of loan l among a set of alerts.
Of(l, alerts) == {a \in alerts : a[1] = l}

\* The loan is unpaid and its due date is 0 to 3 days ahead.
DueWithin3(loan) ==
    /\ loan.current_outstanding_balance > Tolerance
    /\ loan.due_date - today >= 0
    /\ loan.due_date - today <= 3

\* The loan is unpaid and past its due date.
PastDue(loan) ==
    loan.current_outstanding_balance > Tolerance /\ today > loan.due_date

\* C11: a scan over a loan with balance > 0.01, due 0 to 3 days ahead and
\* due-soon flag false tries exactly the due-soon alert for it; when the send
\* succeeds that one alert is sent, and when its flag write commits the stored
\* due-soon flag is true (else the row is unchanged); a scan over such a loan
\* whose due-soon flag is true tries no alert for it.
C11_DueSoonAlertOnce ==
    [][ScanStep =>
          \A l \in DOMAIN db_loans :
             DueWithin3(db_loans[l]) =>
                IF db_loans[l].notification_due_soon_sent
                THEN Of(l, Tried) = {} /\ db_loans'[l] = db_loans[l]
                ELSE /\ Of(l, Tried) = {<<l, "due soon">>}
                     /\ Of(l, last'.sent) = {} <=> Of(l, last'.failed) # {}
                     /\ Of(l, last'.flagged) # {} =>
                           db_loans'[l] =
                              [db_loans[l] EXCEPT !.notification_due_soon_sent = TRUE]
                     /\ Of(l, last'.flagged) = {} => db_loans'[l] = db_loans[l]]_vars

\* C11 witness: the second of two scans: the loan is due within 3 days, its
\* due-soon alert was delivered and flagged by an earlier scan, and this scan
\* has sent nothing.
C11_Witness ==
    /\ last.op = "notifications" /\ last.sent = {} /\ last.failed = {}
    /\ \E l \in DOMAIN db_loans :
          /\ DueWithin3(db_loans[l])
          /\ db_loans[l].notification_due_soon_sent
          /\ "due soon" \in alerted[l].sent

\* C12 as claimed: between two consecutive resets of a loan's flags at most
\* one alert of each kind is sent for the loan, also when the flag write after
\* a successful send fails: no scan sends an alert that has been delivered for
\* the loan since its flags were last reset.
C12_AtMostOncePerTransition ==
    [][\A a \in last'.sent : a[2] \notin alerted[a[1]].sent]_vars

\* C12 as amended: a scan sends an alert only while its flag is false; a flag
\* write that commits sets the flag, and a flag that is set belongs to an
\* alert delivered since the last reset, so that alert is not sent again
\* before the next reset; a flag write that fails leaves the row unchanged
\* (the flag false), so the next scan sends the alert again.
C12_AtMostOnceOnceFlagged ==
    [][/\ \A a \in last'.sent : ~Flag(db_loans[a[1]], a[2])
       /\ \A a \in last'.flagged : Flag(db_loans'[a[1]], a[2])
       /\ \A a \in last'.sent \ last'.flagged :
             /\ db_loans'[a[1]] = db_loans[a[1]]
             /\ (AlertDue(db_loans[a[1]]))' = a[2]
       /\ \A l \in DOMAIN db_loans' : \A k \in {"overdue", "due soon"} :
             Flag(db_loans'[l], k) => k \in alerted'[l].sent]_vars

\* C12 witness: a scan has delivered an alert and its flag write has failed:
\* the flag is false and the alert is due again.
C12_Witness ==
    /\ last.op = "notifications"
    /\ \E a \in last.sent \ last.flagged :
          /\ a[2] \in alerted[a[1]].sent
          /\ ~Flag(db_loans[a[1]], a[2])
          /\ AlertDue(db_loans[a[1]]) = a[2]

\* C13: a scan over a loan with balance > 0.01 and today > due_date tries no
\* due-soon alert for it, whatever its due-soon flag, and tries the overdue
\* alert if and only if its overdue flag is false; when the send succeeds and
\* the flag write commits, the stored overdue flag is true (so a later scan
\* tries no overdue alert); otherwise the row is unchanged.
C13_OverdueAlertOnly ==
    [][ScanStep =>
          \A l \in DOMAIN db_loans :
             PastDue(db_loans[l]) =>
                /\ <<l, "due soon">> \notin Tried
                /\ <<l, "overdue">> \in Tried <=>
                      ~db_loans[l].notification_overdue_sent
                /\ ~(<<l, "overdue">> \in last'.sent /\ <<l, "overdue">> \in last'.failed)
                /\ <<l, "overdue">> \in last'.flagged =>
                      db_loans'[l] =
                         [db_loans[l] EXCEPT !.notification_overdue_sent = TRUE]
                /\ <<l, "overdue">> \notin last'.flagged =>
                      db_loans'[l] = db_loans[l]]_vars

\* C13 witness: a scan has sent the overdue alert of a loan whose due-soon
\* flag was set while it was still due within 3 days; both flags are now set.
C13_Witness ==
    /\ last.op = "notifications"
    /\ \E l \in DOMAIN db_loans :
          /\ PastDue(db_loans[l])
          /\ last.sent = {<<l, "overdue">>}
          /\ db_loans[l].notification_due_soon_sent
          /\ db_loans[l].notification_overdue_sent

\* C14: when send_email reports failure for an alert during a scan, the flag
\* of that alert stays false and the loan's row is unchanged, no other loan
\* changes except by its own flag write, every loan with an alert due is still
\* tried in the same scan, and the failed alert is due again for the next scan.
C14_SendFailureKeepsFlag ==
    [][(ScanStep /\ last'.failed # {}) =>
          /\ DOMAIN db_loans' = DOMAIN db_loans
          /\ \A a \in last'.failed :
                /\ db_loans'[a[1]] = db_loans[a[1]]
                /\ ~Flag(db_loans'[a[1]], a[2])
                /\ (AlertDue(db_loans[a[1]]))' = a[2]
          /\ \A m \in DOMAIN db_loans :
                /\ (PastDue(db_loans[m]) /\ ~db_loans[m].notification_overdue_sent)
                      => <<m, "overdue">> \in Tried
                /\ (DueWithin3(db_loans[m]) /\ ~db_loans[m].notification_due_soon_sent)
                      => <<m, "due soon">> \in Tried
                /\ db_loans'[m] # db_loans[m] =>
                      \/ /\ Of(m, last'.flagged) # {}
                         /\ \E k \in {"overdue", "due soon"} :
                               /\ <<m, k>> \in last'.flagged
                               /\ db_loans'[m] =
                                     IF k = "overdue"
                                     THEN [db_loans[m] EXCEPT
                                             !.notification_overdue_sent = TRUE]
                                     ELSE [db_loans[m] EXCEPT
                                             !.notification_due_soon_sent = TRUE]
                      \/ /\ FoundActive(db_loans[m])
                         /\ db_loans'[m] =
                               [db_loans[m] EXCEPT
                                  !.notification_due_soon_sent = FALSE,
                                  !.notification_overdue_sent = FALSE]]_vars

\* C14 witness: in one scan the send for the first loan failed and the alert
\* of the second loan was sent and flagged; the first loan's flag is false.
C14_Witness ==
    /\ last.op = "notifications"
    /\ last.failed = {<<1, "overdue">>}
    /\ last.flagged = {<<2, "overdue">>}
    /\ ~db_loans[1].notification_overdue_sent
    /\ db_loans[2].notification_overdue_sent

\* C15: every recordPayment sets both notification flags of the loan to false
\* in the session's list and, when the update commits, in the store, whatever
\* the resulting status (when the update fails the stored flags are as they
\* were); and a scan over an unpaid loan whose flags are both false tries the
\* overdue alert when the loan is past due and the due-soon alert when it is
\* due within 3 days, so an alert delivered before the payment is sent afresh.
C15_PaymentResetsFlags ==
    [][\A l \in DOMAIN db_loans :
          /\ PaymentStep(l) =>
                /\ ~loans'[l].notification_due_soon_sent
                /\ ~loans'[l].notification_overdue_sent
                /\ last'.ok =>
                      /\ ~db_loans'[l].notification_due_soon_sent
                      /\ ~db_loans'[l].notification_overdue_sent
                      /\ (PastDue(db_loans[l]))' =>
                            (AlertDue(db_loans[l]))' = "overdue"
                      /\ (DueWithin3(db_loans[l]))' =>
                            (AlertDue(db_loans[l]))' = "due soon"
                /\ ~last'.ok => db_loans'[l] = db_loans[l]
          /\ (ScanStep /\ ~db_loans[l].notification_due_soon_sent
                       /\ ~db_loans[l].notification_overdue_sent) =>
                /\ PastDue(db_loans[l]) => <<l, "overdue">> \in Tried
                /\ DueWithin3(db_loans[l]) => <<l, "due soon">> \in Tried]_vars

\* C15 witness: the overdue alert of a loan had been delivered, a partial
\* payment then reset the flags and left the loan overdue, and this scan has
\* sent the overdue alert again.
C15_Witness ==
    /\ last.op = "notifications"
    /\ \E l \in DOMAIN db_loans :
          /\ "overdue" \in alerted[l].paid_over
          /\ <<l, "overdue">> \in last.sent
          /\ db_loans[l].payments_made > 0
          /\ PastDue(db_loans[l])

----------------------------------------------------------------------------
(* Properties of the edits and the deletion *)

\* C16: an editLoan with new principal P' on a loan with principal P and
\* balance B that commits stores amount = P', initial_total_due =
\* P' * (1 + interest_rate), balance = max(0, B + (P' - P)), the status the
\* classifier's rules give for the new due date, the new balance and today,
\* and both flags false; payments_made, interest_rate and the owner are
\* unchanged; every other loan is unchanged.
C16_EditLoanStores ==
    [][\A l \in DOMAIN db_loans :
          (last'.op = "editLoan" /\ last'.loan = l /\ last'.ok) =>
             LET old == db_loans[l]
                 new == db_loans'[l]
                 shifted == old.current_outstanding_balance
                               + (last'.amount - old.amount)
                 ahead == new.due_date - today'
             IN  /\ new.amount = last'.amount
                 /\ 100 * new.initial_total_due =
                       new.amount * (100 + old.interest_rate)
                 /\ new.current_outstanding_balance =
                       IF shifted > 0 THEN shifted ELSE 0
                 /\ new.status =
                       IF new.current_outstanding_balance <= Tolerance THEN "Paid"
                       ELSE IF ahead < 0 THEN "Overdue"
                       ELSE IF ahead <= 3 THEN "Due Soon"
                       ELSE "Active"
                 /\ ~new.notification_due_soon_sent
                 /\ ~new.notification_overdue_sent
                 /\ new.payments_made = old.payments_made
                 /\ new.interest_rate = old.interest_rate
                 /\ new.loan_id = old.loan_id
                 /\ new.borrower_id = old.borrower_id
                 /\ \A m \in DOMAIN db_loans' : m # l => db_loans'[m] = db_loans[m]
                 /\ DOMAIN db_loans' = DOMAIN db_loans]_vars

\* C16 witness: the principal of a loan of 0.01 has been edited to 100: the
\* balance is the old balance 0.012 raised by 99.99, the initial total due 120.
C16_Witness ==
    /\ last.op = "editLoan" /\ last.ok
    /\ db_loans[last.loan].amount = Dollars(100)
    /\ db_loans[last.loan].initial_total_due = Dollars(120)
    /\ db_loans[last.loan].current_outstanding_balance =
          MulRate(Cent, 20) + (Dollars(100) - Cent)

\* Another borrower than b holds this id number.
HeldByAnother(id_number, b) ==
    \E c \in DOMAIN db_borrowers :
       c # b /\ db_borrowers[c].id_number = id_number

\* C17: an editBorrower changes nothing but the identity fields of the
\* selected borrower: every loan, every repayment, every other borrower and
\* the borrower's own id and payslip stay as they were; when the new id number
\* is held by another borrower it fails and the store is unchanged; when it
\* succeeds the borrower holds the id number supplied.
C17_EditBorrowerFrame ==
    [][last'.op = "editBorrower" =>
          LET b == last'.loan
          IN  /\ db_loans' = db_loans
              /\ db_repayments' = db_repayments
              /\ DOMAIN db_borrowers' = DOMAIN db_borrowers
              /\ \A c \in DOMAIN db_borrowers :
                    c # b => db_borrowers'[c] = db_borrowers[c]
              /\ db_borrowers'[b].borrower_id = db_borrowers[b].borrower_id
              /\ db_borrowers'[b].payslip_info = db_borrowers[b].payslip_info
              /\ HeldByAnother(last'.id_number, b) => ~last'.ok
              /\ last'.ok => db_borrowers'[b].id_number = last'.id_number
              /\ ~last'.ok => db_borrowers' = db_borrowers]_vars

\* C17 witness: an edit that gave a borrower who owns a loan the id number of
\* another borrower has failed.
C17_Witness ==
    /\ last.op = "editBorrower" /\ ~last.ok
    /\ HeldByAnother(last.id_number, last.loan)
    /\ db_borrowers[last.loan].id_number # last.id_number
    /\ \E l \in DOMAIN db_loans : db_loans[l].borrower_id = last.loan

\* C18: a confirmed deleteLoan(id) removes the loan with that id and every
\* Repayment row of it from the store and leaves the other loans, the other
\* repayments and the borrowers unchanged; after it no Repayment row refers to
\* a loan id that is absent from the store.
C18_ConfirmedDeleteCascades ==
    [][(last'.op = "deleteLoan" /\ last'.confirmed) =>
          LET id == last'.loan
          IN  /\ id \notin DOMAIN db_loans'
              /\ DOMAIN db_loans' = DOMAIN db_loans \ {id}
              /\ \A m \in DOMAIN db_loans' : db_loans'[m] = db_loans[m]
              /\ db_repayments' = {r \in db_repayments : r.loan_id # id}
              /\ db_borrowers' = db_borrowers
              /\ \A r \in db_repayments' : r.loan_id \in DOMAIN db_loans']_vars

\* C19: repayment history is append-only: every recordPayment that applies a
\* payment (its loan update commits) adds exactly one Repayment row, of the
\* loan paid, carrying the effective (clamped) amount, which is > 0, and the
\* date supplied; no other operation adds a row; a row once stored stays as it
\* is until a deleteLoan of its loan removes it.
C19_RepaymentsAppendOnly ==
    [][/\ \A l \in DOMAIN db_loans :
             (PaymentStep(l) /\ last'.ok) =>
                /\ Cardinality(Inserted) = 1
                /\ \A r \in Inserted :
                      /\ r.loan_id = l
                      /\ r.amount_paid > 0
                      /\ r.amount_paid =
                            IF last'.amount > Balance(l) THEN Balance(l)
                            ELSE last'.amount
                      /\ r.repayment_date \in PaymentDates
       /\ last'.op # "recordPayment" => Inserted = {}
       /\ \A r \in db_repayments :
             r \notin db_repayments' =>
                last'.op = "deleteLoan" /\ last'.loan = r.loan_id]_vars

\* C20: no two borrowers share an id number after any step; a
\* registerBorrower with an id number that is already registered fails and
\* leaves the borrowers unchanged, and an editBorrower that would give a
\* borrower the id number of another fails and leaves them unchanged.
C20_IdNumberUnique ==
    [][/\ \A b \in DOMAIN db_borrowers' : \A c \in DOMAIN db_borrowers' :
             b # c => db_borrowers'[b].id_number # db_borrowers'[c].id_number
       /\ (last'.op = "registerBorrower" /\ HeldByAnother(last'.id_number, 0)) =>
             ~last'.ok /\ db_borrowers' = db_borrowers
       /\ (last'.op = "registerBorrower" /\ last'.ok) =>
             /\ Len(db_borrowers') = Len(db_borrowers) + 1
             /\ db_borrowers'[Len(db_borrowers')].id_number = last'.id_number
       /\ (last'.op = "editBorrower"
           /\ HeldByAnother(last'.id_number, last'.loan)) =>
             ~last'.ok /\ db_borrowers' = db_borrowers]_vars

\* C20 witness: with two borrowers registered under different id numbers, a
\* registration under one of these id numbers has failed.
C20_Witness ==
    /\ last.op = "registerBorrower" /\ ~last.ok
    /\ Len(db_borrowers) = 2
    /\ db_borrowers[1].id_number # db_borrowers[2].id_number
    /\ HeldByAnother(last.id_number, 0)

----------------------------------------------------------------------------
(* Properties of the failure paths *)

Finishing == DOMAIN inflight \ DOMAIN inflight'

\* C22: a recordPayment for a loan id that matches no loan of the store, the
\* loan having been deleted after the run loaded its list, fails, inserts no
\* Repayment row and changes no loan.
C22_PaymentOfDeletedLoanFails ==
    [][(last'.op = "recordPayment" /\ last'.loan \notin DOMAIN db_loans) =>
          /\ ~last'.ok
          /\ Inserted = {}
          /\ db_loans' = db_loans]_vars

\* C23: when the store write of the loan fails during a recordPayment, the
\* changes made in memory are discarded: at the end of the run the loan of the
\* session's list equals the stored row, which is as it was before the payment,
\* and no Repayment row of the payment exists.
C23_FailedWriteDiscardsPayment ==
    [][\A l \in DOMAIN db_loans :
          (PaymentStep(l) /\ ~last'.ok) =>
             /\ db_loans'[l] = db_loans[l]
             /\ loans'[l] = db_loans'[l]
             /\ Inserted = {}]_vars

\* C24: the run of a recordPayment writes what it computed from the list it
\* fetched at its start, whatever the store holds when it writes: when two
\* payments of one loan overlap, the stored balance and payments_made after
\* the second write are those of the second payment applied to the values both
\* had read, and the first payment's update is lost, though both report
\* success and both insert a Repayment row.
C24_WriteFromTheListRead ==
    [][\A s \in Finishing :
          (last'.op = "recordPayment" /\ last'.ok
           /\ last'.loan \in DOMAIN db_loans) =>
             LET read == inflight[s][last'.loan]
                 paid == IF last'.amount > read.current_outstanding_balance
                         THEN read.current_outstanding_balance
                         ELSE last'.amount
                 left == read.current_outstanding_balance - paid
                 new == db_loans'[last'.loan]
             IN  /\ new.payments_made = read.payments_made + paid
                 /\ IF left > Tolerance
                    THEN 100 * new.current_outstanding_balance =
                            left * (100 + read.interest_rate)
                    ELSE new.current_outstanding_balance = 0
                 /\ \A r \in Inserted : r.amount_paid = paid]_vars

\* C24 witness: two payments of 50 on a balance of 120 have overlapped; both
\* updates were committed and both Repayment rows are stored, and the loan
\* shows one payment: payments_made 50 and balance 84.
C24_Witness ==
    /\ last.op = "recordPayment" /\ last.ok /\ last.ok2 /\ last.stale
    /\ last.loan \in DOMAIN db_loans
    /\ Cardinality({r \in db_repayments :
                      r.loan_id = last.loan /\ r.amount_paid = Dollars(50)}) = 2
    /\ db_loans[last.loan].payments_made = Dollars(50)
    /\ db_loans[last.loan].current_outstanding_balance = Dollars(84)

\* C25: when the process dies after the send of a loan's alert has succeeded
\* and before the flag is written, the loan's row is unchanged, its flag is
\* still false and the same alert is still due; the scan that runs next tries
\* that same alert for that loan again.
C25_CrashBetweenSendAndFlag ==
    [][/\ \A l \in DOMAIN db_loans :
             (last'.op = "crashedScan" /\ last'.loan = l) =>
                /\ AlertDue(db_loans[l]) # "none"
                /\ <<l, AlertDue(db_loans[l])>> \in last'.sent
                /\ db_loans'[l] = db_loans[l]
                /\ ~Flag(db_loans'[l], AlertDue(db_loans[l]))
                /\ (AlertDue(db_loans[l]))' = AlertDue(db_loans[l])
       /\ (last.op = "crashedScan" /\ ScanStep /\ last.loan \in DOMAIN db_loans) =>
             /\ Of(last.loan, Tried) = Of(last.loan, last.sent)
             /\ Of(last.loan, Tried) # {}]_vars

\* C25 witness: a scan has died after the overdue alert of a loan was sent:
\* the alert has gone out, the stored flag is false and the alert is due again.
C25_Witness ==
    /\ last.op = "crashedScan"
    /\ last.loan \in DOMAIN db_loans
    /\ <<last.loan, "overdue">> \in last.sent
    /\ "overdue" \in alerted[last.loan].sent
    /\ ~db_loans[last.loan].notification_overdue_sent
    /\ AlertDue(db_loans[last.loan]) = "overdue"

\* C26: a stored notification flag of a loan goes from false to true only in
\* a scan in which the alert of that condition was sent for that loan, and
\* from true to false only in a recordPayment or an editLoan of that loan or
\* in a scan that finds the loan Active; no other run and no passing day
\* changes a flag.
C26_FlagStateMachine ==
    [][\A l \in DOMAIN db_loans \cap DOMAIN db_loans' :
          \A kind \in {"overdue", "due soon"} :
             /\ (~Flag(db_loans[l], kind) /\ Flag(db_loans'[l], kind)) =>
                   ScanStep /\ <<l, kind>> \in last'.sent
             /\ (Flag(db_loans[l], kind) /\ ~Flag(db_loans'[l], kind)) =>
                   \/ last'.op \in {"recordPayment", "editLoan"} /\ last'.loan = l
                   \/ ScanStep /\ FoundActive(db_loans[l])]_vars

\* C26 witness: the overdue flag of a loan was set after its alert was sent,
\* and the payment just committed has stored it as false again.
C26_Witness ==
    /\ last.op = "recordPayment" /\ last.ok
    /\ last.loan \in DOMAIN db_loans
    /\ <<last.loan, "overdue">> \in last.cleared
    /\ "overdue" \in alerted[last.loan].paid_over
    /\ ~db_loans[last.loan].notification_overdue_sent

\* C27: in every state of the serialized runs, with the date never going
\* back, a stored loan whose overdue flag is set has balance > 0.01 and
\* today > due_date, and one whose due-soon flag is set has balance > 0.01 and
\* due_date - today <= 3; so a loan that classifies as Active or Paid has both
\* flags false; and a scan iteration over an Active row with a flag set stores
\* it with both flags false.
C27_FlagsMatchCondition ==
    \A l \in DOMAIN db_loans :
       LET loan == db_loans[l]
       IN  /\ loan.notification_overdue_sent =>
                loan.current_outstanding_balance > Tolerance
                /\ today > loan.due_date
           /\ loan.notification_due_soon_sent =>
                loan.current_outstanding_balance > Tolerance
                /\ loan.due_date - today <= 3
           /\ get_loan_status(loan) \in {"Active", "Paid"} => FlagsSet(loan) = {}
           /\ \A mail_ok \in BOOLEAN :
                 \A flagged \in {[loan EXCEPT !.notification_overdue_sent = TRUE],
                                 [loan EXCEPT !.notification_due_soon_sent = TRUE]} :
                    FoundActive(flagged) =>
                       FlagsSet(ScannedLoan(flagged, mail_ok, TRUE)) = {}

\* C27 witness: a loan alerted as due soon has since become overdue and been
\* alerted again: both flags are set, the balance is unpaid and the due date
\* is past.
C27_Witness ==
    \E l \in DOMAIN db_loans :
       /\ db_loans[l].notification_due_soon_sent
       /\ db_loans[l].notification_overdue_sent
       /\ PastDue(db_loans[l])
       /\ get_loan_status(db_loans[l]) = "Overdue"

\* The loan is stored, unpaid and past due, and the run that has just ended
\* was not a payment or an edit of it.
OverdueUntouched(l) ==
    /\ l \in DOMAIN db_loans
    /\ PastDue(db_loans[l])
    /\ ~(last.op \in {"recordPayment", "editLoan"} /\ last.loan = l)

OverdueFlagged(l) ==
    l \in DOMAIN db_loans /\ db_loans[l].notification_overdue_sent

\* C28: when scans that succeed are not put off for ever, every loan that from
\* some point on stays overdue with balance > 0.01 and gets no payment and no
\* edit has, from some point on, its overdue flag set for good, however many
\* sends or flag writes failed before.
C28_OverdueFlagEventuallySet ==
    \A l \in TwoLoanIds : <>[]OverdueUntouched(l) => <>[]OverdueFlagged(l)

\* C28 witness: a scan has sent the overdue alert of a loan that is still
\* overdue and has stored its flag, while the send for another loan failed.
C28_Witness ==
    \E l \in DOMAIN db_loans :
       /\ last.op = "notifications"
       /\ <<l, "overdue">> \in last.flagged
       /\ last.failed # {}
       /\ OverdueUntouched(l) /\ OverdueFlagged(l)

\* C29: re-accrual has no cap: a committed payment p that leaves B - p > 0.01
\* stores (B - p) * (1 + interest_rate) whatever was paid or accrued before and
\* whatever initial_total_due is, so that at rate 0.20 the balance ends higher
\* than B exactly when p is less than a sixth of B; and on 120 due, 84 paid
\* after 50 leaves the loan Paid with payments_made 134.
C29_ReaccrualUncapped ==
    [][\A l \in DOMAIN db_loans :
          (PaymentStep(l) /\ last'.ok) =>
             /\ (Balance(l) - last'.amount > Tolerance) =>
                   /\ 100 * (Balance(l))' =
                         (Balance(l) - last'.amount) * (100 + db_loans[l].interest_rate)
                   /\ db_loans'[l].initial_total_due = db_loans[l].initial_total_due
                   /\ db_loans[l].interest_rate = 20 =>
                         ((Balance(l))' > Balance(l) <=> 6 * last'.amount < Balance(l))
             /\ (/\ db_loans[l].initial_total_due = Dollars(120)
                 /\ db_loans[l].payments_made = Dollars(50)
                 /\ last'.amount = Dollars(84)) =>
                   /\ Balance(l) = Dollars(84)
                   /\ (Balance(l))' = 0
                   /\ db_loans'[l].status = "Paid"
                   /\ db_loans'[l].payments_made = Dollars(134)]_vars

\* C29 witness: on 120 due, 10 was paid and the balance rose to 132, above
\* the balance before the payment and above initial_total_due; the payment
\* that followed was cut down to that balance, so that the loan is Paid with
\* payments_made 142, more than initial_total_due.
C29_Witness ==
    \E l \in DOMAIN db_loans :
       /\ db_loans[l].initial_total_due = Dollars(120)
       /\ \E r \in db_repayments : r.loan_id = l /\ r.amount_paid = Dollars(10)
       /\ \E r \in db_repayments : r.loan_id = l /\ r.amount_paid = Dollars(132)
       /\ db_loans[l].payments_made = Dollars(142)
       /\ db_loans[l].payments_made > db_loans[l].initial_total_due
       /\ db_loans[l].status = "Paid"

\* The sum of amount_paid over a set of Repayment rows.
RECURSIVE SumPaid(_)
SumPaid(rows) ==
    IF rows = {} THEN 0
    ELSE LET r == CHOOSE x \in rows : TRUE
         IN  r.amount_paid + SumPaid(rows \ {r})

\* C30: in every state, the payments_made of every stored loan is the sum of
\* amount_paid over the Repayment rows of that loan (0 when it has none).
C30_PaymentsMadeIsSumOfRows ==
    \A l \in DOMAIN db_loans :
       db_loans[l].payments_made =
          SumPaid({r \in db_repayments : r.loan_id = l})

\* The place of a classification on the way Active, Due Soon, Overdue.
Rank(status) ==
    IF status = "Active" THEN 0 ELSE IF status = "Due Soon" THEN 1 ELSE 2

PaymentColumns ==
    {"payments_made", "current_outstanding_balance", "status",
     "notification_due_soon_sent", "notification_overdue_sent"}

\* Two lists of loans hold the same loans and differ at most in the given
\* columns of loan l.
SameBut(before, after, l, columns) ==
    /\ DOMAIN after = DOMAIN before
    /\ \A k \in DOMAIN before :
          \A c \in DOMAIN before[k] :
             (k # l \/ c \notin columns) => after[k][c] = before[k][c]

\* C32: a run of recordPayment on loan L changes, in the store and in the
\* session's list, nothing but L's payments_made, current_outstanding_balance,
\* status and two notification flags: L's amount, interest_rate, loan_date,
\* due_date and initial_total_due, every other loan and every borrower are as
\* they were, and no loan is added or removed.
C32_PaymentFrame ==
    [][\A l \in DOMAIN db_loans :
          PaymentStep(l) =>
             /\ SameBut(db_loans, db_loans', l, PaymentColumns)
             /\ SameBut(db_loans, loans', l, PaymentColumns)
             /\ db_borrowers' = db_borrowers
             /\ today' = today]_vars

\* C32 witness: of two loans one has received a partial payment that was
\* committed: its balance has re-accrued to 84 and its due date is still 30
\* days after its loan date, and the other loan has no payment.
C32_Witness ==
    /\ last.op = "recordPayment" /\ last.ok
    /\ DOMAIN db_loans = TwoLoanIds
    /\ db_loans[last.loan].payments_made = Dollars(50)
    /\ db_loans[last.loan].current_outstanding_balance = Dollars(84)
    /\ db_loans[last.loan].initial_total_due = Dollars(120)
    /\ db_loans[last.loan].due_date = db_loans[last.loan].loan_date + LoanTermDays
    /\ \A k \in DOMAIN db_loans \ {last.loan} :
          db_loans[k].payments_made = 0
          /\ db_loans[k].current_outstanding_balance = Dollars(120)

\* The columns of a loan that a scan may write.
FlagColumns == {"notification_due_soon_sent", "notification_overdue_sent"}

\* C33: a notification scan changes nothing but notification flags: every
\* stored loan keeps its amount, interest_rate, dates, initial_total_due,
\* balance, payments_made and stored status, no loan, borrower or Repayment
\* is added or removed, and for a loan with balance <= 0.01 no alert is tried
\* and the row is unchanged.
C33_ScanFrame ==
    [][ScanStep =>
          /\ DOMAIN db_loans' = DOMAIN db_loans
          /\ \A l \in DOMAIN db_loans :
                /\ \A c \in DOMAIN db_loans[l] \ FlagColumns :
                      db_loans'[l][c] = db_loans[l][c]
                /\ Balance(l) <= Tolerance =>
                      Of(l, Tried) = {} /\ db_loans'[l] = db_loans[l]
          /\ db_borrowers' = db_borrowers
          /\ db_repayments' = db_repayments
          /\ today' = today]_vars

\* C33 witness: a scan has sent the overdue alert of one loan and stored its
\* flag, the loan's stored status being still the one written at creation,
\* while the other loan, paid off and past its due date, was sent nothing and
\* has no flag.
C33_Witness ==
    /\ last.op = "notifications"
    /\ \E l, k \in DOMAIN db_loans :
          /\ l # k
          /\ <<l, "overdue">> \in last.flagged
          /\ db_loans[l].notification_overdue_sent
          /\ db_loans[l].status = "Active"
          /\ db_loans[k].current_outstanding_balance = 0
          /\ today > db_loans[k].due_date
          /\ Of(k, last.sent \cup last.failed) = {}
          /\ FlagsSet(db_loans[k]) = {}

====
